---- MODULE Spec2Model ----
(***************************************************************************)
(* The broker of src/pipeline.py (class TerminalManager): the accept loop, *)
(* one handler thread per accepted connection, the terminals dictionary    *)
(* (the Registry) and the completion_callbacks dictionary (the Callback    *)
(* Table).  The dictionaries are shared by all handler threads without a   *)
(* lock, so a handler is modelled one shared access (or one socket call)   *)
(* per step: a dictionary membership test, a subscript, a store, a delete  *)
(* or a send is atomic, and any other thread may run between two of them.  *)
(***************************************************************************)
EXTENDS Naturals, Sequences, FiniteSets, TLC

(* Bounds of the model. *)
NConns == 2
MaxMsgs == 4
MaxSeqMsgs == 5
MaxRegMsgs == 3
MaxBlockMsgs == 3
MaxKeyMsgs == 3

Conns == 1..NConns
NoConn == 0

(* A field that is missing (None) or empty: both are falsy in Python and   *)
(* neither is ever a key of terminals.                                     *)
Absent == ""
Names == {"A", "B"}
Commands == {"x"}
Contents == {"hi"}
Results == {"r"}
Pids == {"p"}
Cwds == {"d"}

(* Terminal names and command texts that contain the ':' of the callback   *)
(* key, next to ones that do not.                                          *)
KeyNames == {"A", "A:x"}
KeyCommands == {"x", "x:x"}

VARIABLES
    running,               \* TerminalManager.running
    server_socket,         \* "listening" or "closed"
    main_pc,               \* start_pipeline_server: "serving", "interrupted", "closed", "exited"
    listener_pc,           \* _handle_connections: "while", "select", "exited", "killed"
    pc,                    \* position of each connection's _handle_client thread
    peer,                  \* whether the client end of the connection is still open
    stalled,               \* whether the client has stopped reading its socket
    message,               \* the decoded message a handler is processing
    target_socket,         \* local target_socket / callback_socket of a handler
    callback_terminal,     \* local callback_terminal of _handle_completion
    terminal_list,         \* local terminal_list of _list_terminals
    terminals,             \* TerminalManager.terminals, in insertion order
    completion_callbacks,  \* TerminalManager.completion_callbacks
    sent,                  \* what has been written to each client socket
    nrecv,                 \* number of messages decoded so far (bounded by MaxMsgs)
    last_execute           \* history: per callback key, the last stored execute

vars == <<running, server_socket, main_pc, listener_pc, pc, peer, stalled, message,
          target_socket, callback_terminal, terminal_list, terminals,
          completion_callbacks, sent, nrecv, last_execute>>

listenerVars == <<running, server_socket, main_pc, listener_pc>>
localVars == <<message, target_socket, callback_terminal, terminal_list>>

----------------------------------------------------------------------------
(* Messages.  A client message is a JSON object; a field it does not carry  *)
(* reads as Absent through dict.get.                                        *)

NoMessage ==
    [type |-> Absent, name |-> Absent, pid |-> Absent, cwd |-> Absent,
     target |-> Absent, content |-> Absent, command |-> Absent,
     callback |-> Absent, terminal |-> Absent, result |-> Absent]

RegisterMsgs(names) ==
    {[NoMessage EXCEPT !.type = "register", !.name = n, !.pid = p, !.cwd = d] :
        n \in names, p \in Pids, d \in Cwds}

SendMsgs(names) ==
    {[NoMessage EXCEPT !.type = "send", !.target = t, !.content = x] :
        t \in names, x \in Contents}

ExecuteMsgs(names, cbs) ==
    {[NoMessage EXCEPT !.type = "execute", !.target = t, !.command = k,
                       !.callback = b] :
        t \in names, k \in Commands, b \in cbs}

CompleteMsgs(names) ==
    {[NoMessage EXCEPT !.type = "complete", !.terminal = t, !.command = k,
                       !.result = r] :
        t \in names, k \in Commands, r \in Results}

ListMsgs == {[NoMessage EXCEPT !.type = "list"]}

OtherMsgs == {[NoMessage EXCEPT !.type = "ping"], NoMessage}

ClientMsgs ==
    RegisterMsgs(Names \cup {Absent}) \cup SendMsgs(Names)
    \cup ExecuteMsgs(Names, Names \cup {Absent}) \cup CompleteMsgs(Names)
    \cup ListMsgs \cup OtherMsgs

(* What the broker writes to a client socket. *)
NoReply ==
    [type |-> Absent, status |-> Absent, name |-> Absent, content |-> Absent,
     command |-> Absent, callback |-> Absent, from_terminal |-> Absent,
     result |-> Absent, terminals |-> <<>>]

RegisteredReply(n) == [NoReply EXCEPT !.status = "registered", !.name = n]

MessageMsg(x) == [NoReply EXCEPT !.type = "message", !.content = x]

ExecuteMsg(k, b) == [NoReply EXCEPT !.type = "execute", !.command = k, !.callback = b]

CallbackMsg(t, k, r) ==
    [NoReply EXCEPT !.type = "callback", !.from_terminal = t, !.command = k,
                    !.result = r]

ListReply(l) == [NoReply EXCEPT !.type = "list", !.terminals = l]

----------------------------------------------------------------------------
(* The terminals dictionary: a Python dict keeps its keys in insertion      *)
(* order, so it is a sequence of entries with distinct names.               *)

Contains(d, n) == \E i \in 1..Len(d) : d[i].name = n

IndexOf(d, n) == CHOOSE i \in 1..Len(d) : d[i].name = n

Lookup(d, n) == d[IndexOf(d, n)]

Entry(n, s, m) == [name |-> n, socket |-> s, pid |-> m.pid, cwd |-> m.cwd]

(* Variants of Store: one that keeps the first registration of a name, one  *)
(* that rebinds the dictionary to the new entry alone.                      *)
StoreKeepFirst(d, e) == IF Contains(d, e.name) THEN d ELSE Append(d, e)

StoreAlone(d, e) == <<e>>

Store(d, e) ==
    IF Contains(d, e.name)
    THEN [d EXCEPT ![IndexOf(d, e.name)] = e]
    ELSE Append(d, e)

Delete(d, n) == SelectSeq(d, LAMBDA e : e.name # n)

(* Variant of Keys that lists the names newest first.                       *)
KeysNewestFirst(d) == [i \in 1..Len(d) |-> d[Len(d) + 1 - i].name]

Keys(d) == [i \in 1..Len(d) |-> d[i].name]

(* The completion_callbacks dictionary, keyed by f"{target}:{command}".     *)
Format(x) == IF x = Absent THEN "None" ELSE x

CallbackKey(t, k) == Format(t) \o ":" \o Format(k)

CbContains(d, k) == k \in DOMAIN d

(* Variant of CbStore that keeps an entry already there (dict.setdefault).   *)
CbStoreIfAbsent(d, k, v) ==
    [x \in DOMAIN d \cup {k} |-> IF x \in DOMAIN d THEN d[x] ELSE v]

CbStore(d, k, v) == [x \in DOMAIN d \cup {k} |-> IF x = k THEN v ELSE d[x]]

(* Variant of CbDelete that leaves the entry in place.                      *)
CbDeleteNothing(d, k) == d

CbDelete(d, k) == [x \in DOMAIN d \ {k} |-> d[x]]

AllKeys ==
    {CallbackKey(t, k) : t \in Names \cup KeyNames \cup {Absent},
                         k \in Commands \cup KeyCommands \cup {Absent}}

NoExecute == [callback |-> Absent, replaced |-> Absent, fired |-> 0]

----------------------------------------------------------------------------
Init ==
    /\ running = TRUE
    /\ server_socket = "listening"
    /\ main_pc = "serving"
    /\ listener_pc = "while"
    /\ pc = [c \in Conns |-> "unborn"]
    /\ peer = [c \in Conns |-> FALSE]
    /\ stalled = [c \in Conns |-> FALSE]
    /\ message = [c \in Conns |-> NoMessage]
    /\ target_socket = [c \in Conns |-> NoConn]
    /\ callback_terminal = [c \in Conns |-> Absent]
    /\ terminal_list = [c \in Conns |-> <<>>]
    /\ terminals = <<>>
    /\ completion_callbacks = [k \in {} |-> Absent]
    /\ sent = [c \in Conns |-> <<>>]
    /\ nrecv = 0
    /\ last_execute = [k \in AllKeys |-> NoExecute]

----------------------------------------------------------------------------
(* start_pipeline_server and the accept loop.                               *)

Alive == main_pc # "exited"

(* KeyboardInterrupt in start_pipeline_server: manager.running = False.     *)
Interrupt ==
    /\ main_pc = "serving"
    /\ running' = FALSE
    /\ main_pc' = "interrupted"
    /\ UNCHANGED <<server_socket, listener_pc, pc, peer, stalled, localVars, terminals,
                   completion_callbacks, sent, nrecv, last_execute>>

(* manager.server_socket.close() *)
CloseServer ==
    /\ main_pc = "interrupted"
    /\ server_socket' = "closed"
    /\ main_pc' = "closed"
    /\ UNCHANGED <<running, listener_pc, pc, peer, stalled, localVars, terminals,
                   completion_callbacks, sent, nrecv, last_execute>>

(* Variant of ProcessExit for handler threads that are not daemon threads:  *)
(* they outlive start_pipeline_server and keep their connections.          *)
ProcessExitKeepingThreads ==
    /\ main_pc = "closed"
    /\ main_pc' = "exited"
    /\ UNCHANGED <<running, server_socket, listener_pc, pc, peer, stalled, localVars,
                   terminals, completion_callbacks, sent, nrecv, last_execute>>

(* start_pipeline_server returns and the process ends; the listener and the *)
(* handlers are daemon threads: they are killed where they stand and their  *)
(* sockets are closed with the process.                                     *)
ProcessExit ==
    /\ main_pc = "closed"
    /\ main_pc' = "exited"
    /\ listener_pc' = IF listener_pc = "exited" THEN "exited" ELSE "killed"
    /\ pc' = [c \in Conns |-> IF pc[c] \in {"unborn", "done"} THEN pc[c]
                              ELSE "killed"]
    /\ message' = [c \in Conns |-> NoMessage]
    /\ target_socket' = [c \in Conns |-> NoConn]
    /\ callback_terminal' = [c \in Conns |-> Absent]
    /\ terminal_list' = [c \in Conns |-> <<>>]
    /\ UNCHANGED <<running, server_socket, peer, stalled, terminals,
                   completion_callbacks, sent, nrecv, last_execute>>

(* while self.running: the loop ends once running is false.                 *)
ListenerWhile ==
    /\ Alive
    /\ listener_pc = "while"
    /\ listener_pc' = IF running THEN "select" ELSE "exited"
    /\ UNCHANGED <<running, server_socket, main_pc, pc, peer, stalled, localVars,
                   terminals, completion_callbacks, sent, nrecv, last_execute>>

(* select.select([self.server_socket], [], [], 1.0) with no connection      *)
(* pending: on a closed server socket it raises (except: break); otherwise  *)
(* it times out after one second and the loop tests self.running again.     *)
ListenerSelect ==
    /\ Alive
    /\ listener_pc = "select"
    /\ listener_pc' = IF server_socket = "closed" \/ ~running
                      THEN "exited" ELSE "select"
    /\ UNCHANGED <<running, server_socket, main_pc, pc, peer, stalled, localVars,
                   terminals, completion_callbacks, sent, nrecv, last_execute>>

(* select reports a pending connection: accept it, start its handler thread *)
(* and test self.running again.  Connections are numbered in the order they *)
(* are accepted.                                                            *)
Accept(c) ==
    /\ Alive
    /\ listener_pc = "select"
    /\ server_socket = "listening"
    /\ pc[c] = "unborn"
    /\ \A d \in Conns : d < c => pc[d] # "unborn"
    /\ pc' = [pc EXCEPT ![c] = "recv"]
    /\ peer' = [peer EXCEPT ![c] = TRUE]
    /\ listener_pc' = IF running THEN "select" ELSE "exited"
    /\ UNCHANGED <<running, server_socket, main_pc, stalled, localVars,
                   terminals, completion_callbacks, sent, nrecv, last_execute>>

(* The client closes its end of the connection (or dies).                   *)
PeerClose(c) ==
    /\ Alive
    /\ pc[c] \notin {"unborn", "done"}
    /\ peer[c]
    /\ peer' = [peer EXCEPT ![c] = FALSE]
    /\ UNCHANGED <<listenerVars, pc, stalled, localVars, terminals,
                   completion_callbacks, sent, nrecv, last_execute>>

(* The client stops reading its socket while staying connected: once the   *)
(* socket buffers are full, a send to it blocks.                           *)
PeerStall(c) ==
    /\ Alive
    /\ pc[c] \notin {"unborn", "done"}
    /\ peer[c]
    /\ ~stalled[c]
    /\ stalled' = [stalled EXCEPT ![c] = TRUE]
    /\ UNCHANGED <<listenerVars, pc, peer, localVars, terminals,
                   completion_callbacks, sent, nrecv, last_execute>>

----------------------------------------------------------------------------
(* _handle_client: one thread per connection.                               *)

Eof == [NoMessage EXCEPT !.type = "<eof>"]
Undecodable == [NoMessage EXCEPT !.type = "<undecodable>"]

(* What recv and json.loads can yield: a decoded message or bytes that do   *)
(* not decode while the client is connected, b'' or a read error after it   *)
(* has gone.                                                                *)
RecvEvents(c, msgs, max) ==
    IF peer[c]
    THEN (IF nrecv < max THEN msgs ELSE {}) \cup {Undecodable}
    ELSE {Eof}

(* A send to a connected client that has stopped reading does not return.   *)
Blocked(s) == stalled[s] /\ peer[s] /\ pc[s] \notin {"unborn", "done"}

(* A socket send succeeds on an open socket and raises on a socket the      *)
(* broker has closed; once the client has gone it may do either.  A blocked *)
(* send has no outcome.                                                     *)
WriteOutcomes(s) ==
    {ok \in BOOLEAN : /\ ~Blocked(s)
                      /\ IF ok THEN pc[s] \notin {"unborn", "done"}
                               ELSE pc[s] = "done" \/ ~peer[s]}

(* Variant of Dispatch that answers a message of unknown type like a list  *)
(* request.                                                                *)
DispatchOtherAsList(m) ==
    CASE m.type = "register" -> IF m.name # Absent THEN "reg_store" ELSE "ignored"
      [] m.type = "send" -> "snd_in"
      [] m.type = "execute" -> "exe_in"
      [] m.type = "complete" -> "cmp_in"
      [] OTHER -> "lst_keys"

(* _process_message: the handler's first step for a decoded message.  A     *)
(* message that matches no branch of the if/elif chain, or a register      *)
(* without a name, falls through to the end of its function.               *)
Dispatch(m) ==
    CASE m.type = "register" -> IF m.name # Absent THEN "reg_store" ELSE "ignored"
      [] m.type = "send" -> "snd_in"
      [] m.type = "execute" -> "exe_in"
      [] m.type = "complete" -> "cmp_in"
      [] m.type = "list" -> "lst_keys"
      [] OTHER -> "ignored"

(* The handler moves to position p within the message it is processing.     *)
Goto(c, p) ==
    /\ pc' = [pc EXCEPT ![c] = p]
    /\ UNCHANGED message

(* The handler has processed its message, or an exception ended it          *)
(* (except: pass; finally: client_socket.close()): its locals are dropped.  *)
Leave(c, p) ==
    /\ pc' = [pc EXCEPT ![c] = p]
    /\ message' = [message EXCEPT ![c] = NoMessage]
    /\ target_socket' = [target_socket EXCEPT ![c] = NoConn]
    /\ callback_terminal' = [callback_terminal EXCEPT ![c] = Absent]
    /\ terminal_list' = [terminal_list EXCEPT ![c] = <<>>]

Return(c) == Leave(c, "recv")

(* Variant of Raise in which the exception is not caught in the handler and *)
(* ends every handler thread.                                              *)
RaiseEndingAll(c) ==
    /\ pc' = [d \in Conns |-> IF pc[d] = "unborn" THEN "unborn" ELSE "done"]
    /\ message' = [message EXCEPT ![c] = NoMessage]
    /\ target_socket' = [target_socket EXCEPT ![c] = NoConn]
    /\ callback_terminal' = [callback_terminal EXCEPT ![c] = Absent]
    /\ terminal_list' = [terminal_list EXCEPT ![c] = <<>>]

Raise(c) == Leave(c, "done")

(* data = client_socket.recv(4096); message = json.loads(data.decode())     *)
Recv(c, msgs, max) ==
    /\ Alive
    /\ pc[c] = "recv"
    /\ \E m \in RecvEvents(c, msgs, max) :
         IF m \in {Eof, Undecodable}
         THEN /\ Raise(c)
              /\ UNCHANGED nrecv
         ELSE /\ nrecv' = nrecv + 1
              /\ pc' = [pc EXCEPT ![c] = Dispatch(m)]
              /\ message' = [message EXCEPT ![c] = m]
              /\ UNCHANGED <<target_socket, callback_terminal, terminal_list>>
    /\ UNCHANGED <<listenerVars, peer, stalled, terminals, completion_callbacks, sent,
                   last_execute>>

(* _process_message returns without having done anything.                  *)
Ignore(c) ==
    /\ Alive
    /\ pc[c] = "ignored"
    /\ Return(c)
    /\ UNCHANGED <<listenerVars, peer, stalled, terminals, completion_callbacks,
                   sent, nrecv, last_execute>>

(* _register_terminal: self.terminals[term_name] = {...}                    *)
RegStore(c) ==
    /\ Alive
    /\ pc[c] = "reg_store"
    /\ terminals' = Store(terminals, Entry(message[c].name, c, message[c]))
    /\ Goto(c, "reg_reply")
    /\ UNCHANGED <<listenerVars, peer, stalled, target_socket, callback_terminal,
                   terminal_list, completion_callbacks, sent, nrecv, last_execute>>

(* client_socket.send(json.dumps(response).encode())                        *)
RegReply(c) ==
    /\ Alive
    /\ pc[c] = "reg_reply"
    /\ \E ok \in WriteOutcomes(c) :
         IF ok
         THEN /\ sent' = [sent EXCEPT ![c] =
                             Append(@, RegisteredReply(message[c].name))]
              /\ Return(c)
         ELSE /\ Raise(c)
              /\ UNCHANGED sent
    /\ UNCHANGED <<listenerVars, peer, stalled, terminals, completion_callbacks, nrecv,
                   last_execute>>

(* Variant of SndIn without the membership test.                            *)
SndInUnchecked(c) ==
    /\ Alive
    /\ pc[c] = "snd_in"
    /\ Goto(c, "snd_get")
    /\ UNCHANGED <<listenerVars, peer, stalled, target_socket, callback_terminal,
                   terminal_list, terminals, completion_callbacks, sent, nrecv,
                   last_execute>>

(* _send_to_terminal: if target in self.terminals                           *)
SndIn(c) ==
    /\ Alive
    /\ pc[c] = "snd_in"
    /\ IF Contains(terminals, message[c].target)
       THEN /\ Goto(c, "snd_get")
            /\ UNCHANGED <<target_socket, callback_terminal, terminal_list>>
       ELSE Return(c)
    /\ UNCHANGED <<listenerVars, peer, stalled, terminals, completion_callbacks, sent,
                   nrecv, last_execute>>

(* target_socket = self.terminals[target]['socket']: KeyError when another  *)
(* handler has deleted the entry since the membership test.                 *)
SndGet(c) ==
    /\ Alive
    /\ pc[c] = "snd_get"
    /\ IF Contains(terminals, message[c].target)
       THEN /\ Goto(c, "snd_send")
            /\ target_socket' = [target_socket EXCEPT ![c] =
                                    Lookup(terminals, message[c].target).socket]
            /\ UNCHANGED <<callback_terminal, terminal_list>>
       ELSE Raise(c)
    /\ UNCHANGED <<listenerVars, peer, stalled, terminals, completion_callbacks, sent,
                   nrecv, last_execute>>

(* try: target_socket.send(json.dumps(msg).encode())                        *)
SndSend(c) ==
    /\ Alive
    /\ pc[c] = "snd_send"
    /\ \E ok \in WriteOutcomes(target_socket[c]) :
         IF ok
         THEN /\ sent' = [sent EXCEPT ![target_socket[c]] =
                             Append(@, MessageMsg(message[c].content))]
              /\ Return(c)
         ELSE /\ Goto(c, "snd_del")
              /\ UNCHANGED <<sent, target_socket, callback_terminal, terminal_list>>
    /\ UNCHANGED <<listenerVars, peer, stalled, terminals, completion_callbacks, nrecv,
                   last_execute>>

(* Variant of SndDel that also drops the callback entries whose callback   *)
(* terminal is the removed name.                                           *)
SndDelPurging(c) ==
    /\ Alive
    /\ pc[c] = "snd_del"
    /\ IF Contains(terminals, message[c].target)
       THEN /\ terminals' = Delete(terminals, message[c].target)
            /\ completion_callbacks' =
                  [k \in {x \in DOMAIN completion_callbacks :
                             completion_callbacks[x] # message[c].target}
                      |-> completion_callbacks[k]]
            /\ Return(c)
       ELSE /\ Raise(c)
            /\ UNCHANGED <<terminals, completion_callbacks>>
    /\ UNCHANGED <<listenerVars, peer, stalled, sent, nrecv, last_execute>>

(* except: del self.terminals[target]: KeyError when the entry has already  *)
(* been deleted; the exception leaves _send_to_terminal.                     *)
SndDel(c) ==
    /\ Alive
    /\ pc[c] = "snd_del"
    /\ IF Contains(terminals, message[c].target)
       THEN /\ terminals' = Delete(terminals, message[c].target)
            /\ Return(c)
       ELSE /\ Raise(c)
            /\ UNCHANGED terminals
    /\ UNCHANGED <<listenerVars, peer, stalled, completion_callbacks, sent, nrecv,
                   last_execute>>

(* Variant of ExeIn that records the callback before the membership test.   *)
ExeInStoringCallback(c) ==
    /\ Alive
    /\ pc[c] = "exe_in"
    /\ completion_callbacks' =
          IF message[c].callback # Absent
          THEN CbStore(completion_callbacks,
                       CallbackKey(message[c].target, message[c].command),
                       message[c].callback)
          ELSE completion_callbacks
    /\ IF Contains(terminals, message[c].target)
       THEN /\ Goto(c, "exe_get")
            /\ UNCHANGED <<target_socket, callback_terminal, terminal_list>>
       ELSE Return(c)
    /\ UNCHANGED <<listenerVars, peer, stalled, terminals, sent, nrecv, last_execute>>

(* _execute_command: if target in self.terminals                            *)
ExeIn(c) ==
    /\ Alive
    /\ pc[c] = "exe_in"
    /\ IF Contains(terminals, message[c].target)
       THEN /\ Goto(c, "exe_get")
            /\ UNCHANGED <<target_socket, callback_terminal, terminal_list>>
       ELSE Return(c)
    /\ UNCHANGED <<listenerVars, peer, stalled, terminals, completion_callbacks, sent,
                   nrecv, last_execute>>

(* Variant of ExeGet that stores a callback entry whatever the callback     *)
(* field holds.                                                            *)
ExeGetAlwaysStoring(c) ==
    /\ Alive
    /\ pc[c] = "exe_get"
    /\ IF Contains(terminals, message[c].target)
       THEN /\ Goto(c, "exe_cb")
            /\ target_socket' = [target_socket EXCEPT ![c] =
                                    Lookup(terminals, message[c].target).socket]
            /\ UNCHANGED <<callback_terminal, terminal_list>>
       ELSE Raise(c)
    /\ UNCHANGED <<listenerVars, peer, stalled, terminals, completion_callbacks, sent,
                   nrecv, last_execute>>

(* target_socket = self.terminals[target]['socket']; if callback_terminal:  *)
ExeGet(c) ==
    /\ Alive
    /\ pc[c] = "exe_get"
    /\ IF Contains(terminals, message[c].target)
       THEN /\ Goto(c, IF message[c].callback # Absent THEN "exe_cb" ELSE "exe_send")
            /\ target_socket' = [target_socket EXCEPT ![c] =
                                    Lookup(terminals, message[c].target).socket]
            /\ UNCHANGED <<callback_terminal, terminal_list>>
       ELSE Raise(c)
    /\ UNCHANGED <<listenerVars, peer, stalled, terminals, completion_callbacks, sent,
                   nrecv, last_execute>>

(* self.completion_callbacks[f"{target}:{command}"] = callback_terminal     *)
ExeCb(c) ==
    /\ Alive
    /\ pc[c] = "exe_cb"
    /\ LET key == CallbackKey(message[c].target, message[c].command) IN
         /\ completion_callbacks' =
                CbStore(completion_callbacks, key, message[c].callback)
         /\ last_execute' = [last_execute EXCEPT ![key] =
                [callback |-> message[c].callback,
                 replaced |-> IF key \in DOMAIN completion_callbacks
                              THEN completion_callbacks[key] ELSE Absent,
                 fired |-> 0]]
    /\ Goto(c, "exe_send")
    /\ UNCHANGED <<listenerVars, peer, stalled, target_socket, callback_terminal,
                   terminal_list, terminals, sent, nrecv>>

(* try: target_socket.send(json.dumps(msg).encode())                        *)
ExeSend(c) ==
    /\ Alive
    /\ pc[c] = "exe_send"
    /\ \E ok \in WriteOutcomes(target_socket[c]) :
         IF ok
         THEN /\ sent' = [sent EXCEPT ![target_socket[c]] =
                             Append(@, ExecuteMsg(message[c].command,
                                                  message[c].callback))]
              /\ Return(c)
         ELSE /\ Goto(c, "exe_del")
              /\ UNCHANGED <<sent, target_socket, callback_terminal, terminal_list>>
    /\ UNCHANGED <<listenerVars, peer, stalled, terminals, completion_callbacks, nrecv,
                   last_execute>>

(* except: del self.terminals[target]                                       *)
ExeDel(c) ==
    /\ Alive
    /\ pc[c] = "exe_del"
    /\ IF Contains(terminals, message[c].target)
       THEN /\ terminals' = Delete(terminals, message[c].target)
            /\ Return(c)
       ELSE /\ Raise(c)
            /\ UNCHANGED terminals
    /\ UNCHANGED <<listenerVars, peer, stalled, completion_callbacks, sent, nrecv,
                   last_execute>>

(* _handle_completion: if callback_key in self.completion_callbacks         *)
CmpIn(c) ==
    /\ Alive
    /\ pc[c] = "cmp_in"
    /\ IF CbContains(completion_callbacks,
                     CallbackKey(message[c].terminal, message[c].command))
       THEN /\ Goto(c, "cmp_get")
            /\ UNCHANGED <<target_socket, callback_terminal, terminal_list>>
       ELSE Return(c)
    /\ UNCHANGED <<listenerVars, peer, stalled, terminals, completion_callbacks, sent,
                   nrecv, last_execute>>

(* callback_terminal = self.completion_callbacks[callback_key]: KeyError    *)
(* when another handler has deleted the entry since the membership test.    *)
CmpGet(c) ==
    /\ Alive
    /\ pc[c] = "cmp_get"
    /\ LET key == CallbackKey(message[c].terminal, message[c].command) IN
         IF CbContains(completion_callbacks, key)
         THEN /\ Goto(c, "cmp_tin")
              /\ callback_terminal' = [callback_terminal EXCEPT ![c] =
                                          completion_callbacks[key]]
              /\ UNCHANGED <<target_socket, terminal_list>>
         ELSE Raise(c)
    /\ UNCHANGED <<listenerVars, peer, stalled, terminals, completion_callbacks, sent,
                   nrecv, last_execute>>

(* if callback_terminal in self.terminals                                   *)
CmpTin(c) ==
    /\ Alive
    /\ pc[c] = "cmp_tin"
    /\ Goto(c, IF Contains(terminals, callback_terminal[c])
               THEN "cmp_tget" ELSE "cmp_del")
    /\ UNCHANGED <<listenerVars, peer, stalled, target_socket, callback_terminal,
                   terminal_list, terminals, completion_callbacks, sent, nrecv,
                   last_execute>>

(* callback_socket = self.terminals[callback_terminal]['socket']            *)
CmpTget(c) ==
    /\ Alive
    /\ pc[c] = "cmp_tget"
    /\ IF Contains(terminals, callback_terminal[c])
       THEN /\ Goto(c, "cmp_send")
            /\ target_socket' = [target_socket EXCEPT ![c] =
                                    Lookup(terminals, callback_terminal[c]).socket]
            /\ UNCHANGED <<callback_terminal, terminal_list>>
       ELSE Raise(c)
    /\ UNCHANGED <<listenerVars, peer, stalled, terminals, completion_callbacks, sent,
                   nrecv, last_execute>>

(* try: callback_socket.send(json.dumps(msg).encode())                      *)
CmpSend(c) ==
    /\ Alive
    /\ pc[c] = "cmp_send"
    /\ \E ok \in WriteOutcomes(target_socket[c]) :
         IF ok
         THEN /\ sent' = [sent EXCEPT ![target_socket[c]] =
                             Append(@, CallbackMsg(message[c].terminal,
                                                   message[c].command,
                                                   message[c].result))]
              /\ last_execute' =
                    [last_execute EXCEPT
                        ![CallbackKey(message[c].terminal, message[c].command)].fired
                            = @ + 1]
              /\ Goto(c, "cmp_del")
         ELSE /\ Goto(c, "cmp_except")
              /\ UNCHANGED <<sent, last_execute>>
    /\ UNCHANGED <<listenerVars, peer, stalled, target_socket, callback_terminal,
                   terminal_list, terminals, completion_callbacks, nrecv>>

(* except: pass                                                             *)
CmpExcept(c) ==
    /\ Alive
    /\ pc[c] = "cmp_except"
    /\ Goto(c, "cmp_del")
    /\ UNCHANGED <<listenerVars, peer, stalled, target_socket, callback_terminal,
                   terminal_list, terminals, completion_callbacks, sent, nrecv,
                   last_execute>>

(* del self.completion_callbacks[callback_key]: KeyError when another       *)
(* handler has already deleted the entry.                                   *)
CmpDel(c) ==
    /\ Alive
    /\ pc[c] = "cmp_del"
    /\ LET key == CallbackKey(message[c].terminal, message[c].command) IN
         IF CbContains(completion_callbacks, key)
         THEN /\ completion_callbacks' = CbDelete(completion_callbacks, key)
              /\ Return(c)
         ELSE /\ Raise(c)
              /\ UNCHANGED completion_callbacks
    /\ UNCHANGED <<listenerVars, peer, stalled, terminals, sent, nrecv, last_execute>>

(* _list_terminals: terminal_list = list(self.terminals.keys())             *)
LstKeys(c) ==
    /\ Alive
    /\ pc[c] = "lst_keys"
    /\ terminal_list' = [terminal_list EXCEPT ![c] = Keys(terminals)]
    /\ Goto(c, "lst_reply")
    /\ UNCHANGED <<listenerVars, peer, stalled, target_socket, callback_terminal,
                   terminals, completion_callbacks, sent, nrecv, last_execute>>

(* client_socket.send(json.dumps(response).encode())                        *)
LstReply(c) ==
    /\ Alive
    /\ pc[c] = "lst_reply"
    /\ \E ok \in WriteOutcomes(c) :
         IF ok
         THEN /\ sent' = [sent EXCEPT ![c] = Append(@, ListReply(terminal_list[c]))]
              /\ Return(c)
         ELSE /\ Raise(c)
              /\ UNCHANGED sent
    /\ UNCHANGED <<listenerVars, peer, stalled, terminals, completion_callbacks, nrecv,
                   last_execute>>

----------------------------------------------------------------------------
(* One step of connection c's handler thread within a message.              *)
Process(c) ==
    \/ Ignore(c)
    \/ RegStore(c) \/ RegReply(c)
    \/ SndIn(c) \/ SndGet(c) \/ SndSend(c) \/ SndDel(c)
    \/ ExeIn(c) \/ ExeGet(c) \/ ExeCb(c) \/ ExeSend(c) \/ ExeDel(c)
    \/ CmpIn(c) \/ CmpGet(c) \/ CmpTin(c) \/ CmpTget(c) \/ CmpSend(c)
    \/ CmpExcept(c) \/ CmpDel(c)
    \/ LstKeys(c) \/ LstReply(c)

Listener == ListenerWhile \/ ListenerSelect \/ \E c \in Conns : Accept(c)

Shutdown == Interrupt \/ CloseServer \/ ProcessExit

Next ==
    \/ Listener
    \/ \E c \in Conns : PeerClose(c) \/ Recv(c, ClientMsgs, MaxMsgs) \/ Process(c)

Spec == Init /\ [][Next]_vars

(* The broker serving one message at a time: a handler receives and         *)
(* processes a message only while no other handler is inside one.  These    *)
(* are the runs of a test that sends its messages one after the other and   *)
(* waits for each to be handled.                                            *)
Quiet(c) == \A d \in Conns \ {c} : pc[d] \in {"unborn", "recv", "done"}

NextSeq ==
    \E c \in Conns :
       \/ Quiet(c) /\ Recv(c, ClientMsgs, MaxSeqMsgs)
       \/ Quiet(c) /\ Process(c)

(* It starts where such a test starts: connection 1 has registered as A and *)
(* connection 2 as B, both have been answered and both are connected.       *)
InitSeq ==
    /\ running = TRUE
    /\ server_socket = "listening"
    /\ main_pc = "serving"
    /\ listener_pc = "select"
    /\ pc = [c \in Conns |-> IF c \in {1, 2} THEN "recv" ELSE "unborn"]
    /\ peer = [c \in Conns |-> c \in {1, 2}]
    /\ stalled = [c \in Conns |-> FALSE]
    /\ message = [c \in Conns |-> NoMessage]
    /\ target_socket = [c \in Conns |-> NoConn]
    /\ callback_terminal = [c \in Conns |-> Absent]
    /\ terminal_list = [c \in Conns |-> <<>>]
    /\ \E ma \in RegisterMsgs({"A"}), mb \in RegisterMsgs({"B"}) :
         terminals = <<Entry("A", 1, ma), Entry("B", 2, mb)>>
    /\ completion_callbacks = [k \in {} |-> Absent]
    /\ sent = [c \in Conns |-> IF c = 1 THEN <<RegisteredReply("A")>>
                                ELSE IF c = 2 THEN <<RegisteredReply("B")>>
                                ELSE <<>>]
    /\ nrecv = 2
    /\ last_execute = [k \in AllKeys |-> NoExecute]

SpecSeq == InitSeq /\ [][NextSeq]_vars

(* Every connection registers under a name of its own, and only registers. *)
OwnName(c) == "T" \o ToString(c)

NextReg ==
    \/ Listener
    \/ \E c \in Conns :
          \/ PeerClose(c)
          \/ Recv(c, RegisterMsgs({OwnName(c)}), MaxRegMsgs)
          \/ RegStore(c) \/ RegReply(c)

SpecReg == Init /\ [][NextReg]_vars

(* The broker that is interrupted while connections register: the steps of *)
(* start_pipeline_server's KeyboardInterrupt handler run between those of  *)
(* the accept loop and the handlers.  The main thread, once interrupted,   *)
(* and the accept loop keep being scheduled.                               *)
NextShutdown == NextReg \/ Shutdown

SpecShutdown ==
    /\ Init
    /\ [][NextShutdown]_vars
    /\ WF_vars(CloseServer)
    /\ WF_vars(ProcessExit)
    /\ WF_vars(ListenerWhile)
    /\ WF_vars(ListenerSelect)

(* The broker with clients that may stop reading: connections register and *)
(* send to each other, and every handler thread keeps being scheduled.     *)
BlockMsgs == RegisterMsgs(Names) \cup SendMsgs(Names)

NextBlock ==
    \/ Listener
    \/ \E c \in Conns :
          \/ PeerClose(c)
          \/ PeerStall(c)
          \/ Recv(c, BlockMsgs, MaxBlockMsgs)
          \/ RegStore(c) \/ RegReply(c)
          \/ SndIn(c) \/ SndGet(c) \/ SndSend(c) \/ SndDel(c)

SpecBlock ==
    /\ Init
    /\ [][NextBlock]_vars
    /\ \A c \in Conns : WF_vars(Process(c))

(* The broker serving terminals whose names and commands may contain ':':  *)
(* connections register, execute with a callback and complete.             *)
KeyMsgs ==
    RegisterMsgs(KeyNames)
    \cup {[NoMessage EXCEPT !.type = "execute", !.target = t, !.command = k,
                            !.callback = t] :
             t \in KeyNames, k \in KeyCommands}
    \cup {[NoMessage EXCEPT !.type = "complete", !.terminal = t, !.command = k,
                            !.result = r] :
             t \in KeyNames, k \in KeyCommands, r \in Results}

NextKey ==
    \/ Listener
    \/ \E c \in Conns :
          \/ PeerClose(c)
          \/ Recv(c, KeyMsgs, MaxKeyMsgs)
          \/ RegStore(c) \/ RegReply(c)
          \/ ExeIn(c) \/ ExeGet(c) \/ ExeCb(c) \/ ExeSend(c) \/ ExeDel(c)
          \/ CmpIn(c) \/ CmpGet(c) \/ CmpTin(c) \/ CmpTget(c) \/ CmpSend(c)
          \/ CmpExcept(c) \/ CmpDel(c)

SpecKey == Init /\ [][NextKey]_vars

----------------------------------------------------------------------------
(* Vocabulary of the properties, in terms of the state alone.               *)

Registered(n, s) ==
    \E i \in DOMAIN terminals : terminals[i].name = n /\ terminals[i].socket = s

IsRegistered(n) == \E i \in DOMAIN terminals : terminals[i].name = n

Received(s, m) == \E i \in DOMAIN sent[s] : sent[s][i] = m

Routing == {"snd_in", "snd_get", "snd_send", "snd_del",
            "exe_in", "exe_get", "exe_cb", "exe_send", "exe_del",
            "cmp_in", "cmp_get", "cmp_tin", "cmp_tget", "cmp_send",
            "cmp_except", "cmp_del"}

(* C1: once a connection's handler has terminated, no Registry entry holds  *)
(* that connection's session.                                               *)
C1_NoStaleEntry ==
    \A c \in Conns : pc[c] = "done" => \A n \in Names : ~Registered(n, c)

(* C2: the Registry holds at most one session per name; a register step of  *)
(* connection c for name n leaves n mapped to c, whoever held it before;    *)
(* a send or execute looks its target up in the Registry as it is then and  *)
(* writes to that session and to no other.                                  *)
C2_LastRegisteredWins ==
    /\ [](\A i, j \in DOMAIN terminals :
              terminals[i].name = terminals[j].name => i = j)
    /\ [][\A c \in Conns :
            /\ (pc[c] = "reg_store" /\ pc'[c] = "reg_reply") =>
                 \A i \in DOMAIN terminals' :
                    terminals'[i].name = message[c].name => terminals'[i].socket = c
            /\ (pc[c] \in {"snd_get", "exe_get"}
                    /\ pc'[c] \in {"snd_send", "exe_cb", "exe_send"}) =>
                 Registered(message[c].target, target_socket'[c])
            /\ (pc[c] \in {"snd_send", "exe_send"} /\ pc'[c] # pc[c]) =>
                 \A s \in Conns \ {target_socket[c]} : sent'[s] = sent[s]]_vars

(* Connection 1 registered A, connection 2 registered A after it, and the   *)
(* message then sent to A was written to connection 2 alone.                *)
C2_Witness ==
    /\ Registered("A", 2)
    /\ sent[1] = <<RegisteredReply("A")>>
    /\ sent[2] = <<RegisteredReply("A"), MessageMsg("hi")>>

(* C3: in runs that handle one message at a time, with A and B registered:  *)
(* no callback entry fires more than once per execute; a complete that      *)
(* found the entry and whose callback terminal is registered on an open     *)
(* connection has written exactly one callback there, carrying its          *)
(* terminal, command and result; and once it is handled the entry is gone,  *)
(* so a further complete finds nothing to deliver.                          *)
C3_ExactlyOneCallback ==
    /\ \A k \in AllKeys : last_execute[k].fired <= 1
    /\ \A c \in Conns : pc[c] = "cmp_del" =>
          LET k == message[c].terminal \o ":" \o message[c].command IN
          \A s \in Conns :
             (Registered(last_execute[k].callback, s) /\ pc[s] # "done") =>
                /\ last_execute[k].fired = 1
                /\ sent[s] # <<>>
                /\ sent[s][Len(sent[s])] =
                      [type |-> "callback", status |-> Absent, name |-> Absent,
                       content |-> Absent, command |-> message[c].command,
                       callback |-> Absent, from_terminal |-> message[c].terminal,
                       result |-> message[c].result, terminals |-> <<>>]
    /\ \A k \in AllKeys :
          (last_execute[k].fired = 1 /\ \A c \in Conns : pc[c] \notin Routing)
             => k \notin DOMAIN completion_callbacks

(* execute{B, x, callback A} and complete{B, x, r} have been handled, A has *)
(* its one callback, and a further complete{B, x, r} has arrived.           *)
C3_Witness ==
    /\ last_execute["B:x"] = [callback |-> "A", replaced |-> Absent, fired |-> 1]
    /\ sent[1] = <<RegisteredReply("A"), CallbackMsg("B", "x", "r")>>
    /\ sent[2] = <<RegisteredReply("B"), ExecuteMsg("x", "A")>>
    /\ \E c \in Conns : pc[c] = "cmp_in" /\ message[c].terminal = "B"

(* C4: in runs that handle one message at a time, an execute with a         *)
(* callback sets the entry of its (target, command) to its own callback     *)
(* terminal, replacing whatever was there, and every callback a complete    *)
(* writes goes to the session registered under the callback terminal of     *)
(* the last such execute, and to no other session.                          *)
C4_SecondExecuteOverwrites ==
    [][\A c \in Conns :
         LET k == IF pc[c] = "exe_cb"
                  THEN message[c].target \o ":" \o message[c].command
                  ELSE message[c].terminal \o ":" \o message[c].command
         IN
         /\ (pc[c] = "exe_cb" /\ pc'[c] = "exe_send") =>
               /\ k \in DOMAIN completion_callbacks'
               /\ completion_callbacks'[k] = message[c].callback
         /\ (pc[c] = "cmp_send" /\ pc'[c] = "cmp_del") =>
               \E s \in Conns :
                  /\ Registered(last_execute[k].callback, s)
                  /\ sent'[s] # sent[s]
                  /\ \A t \in Conns \ {s} : sent'[t] = sent[t]]_vars

(* Two executes for (A, x) named callback terminals A and then B, and the   *)
(* complete that followed fired once: B has the callback and A has none.    *)
C4_Witness ==
    /\ last_execute["A:x"] = [callback |-> "B", replaced |-> "A", fired |-> 1]
    /\ Received(2, CallbackMsg("A", "x", "r"))
    /\ ~Received(1, CallbackMsg("A", "x", "r"))

(* C5: a callback entry is consumed once: between two executes for a key,   *)
(* at most one callback is written for it.                                  *)
C5_ConsumedOnce == \A k \in AllKeys : last_execute[k].fired < 2

(* C6: when every connection registers a name of its own, concurrently, no  *)
(* registration is lost or corrupted: a connection whose store has run is   *)
(* in the Registry under its name, every entry maps a name to the           *)
(* connection that registered it, no name occurs twice, and once all        *)
(* NConns connections have been answered the Registry has NConns entries.   *)
C6_ConcurrentRegistrations ==
    /\ \A c \in Conns :
          (pc[c] = "reg_reply" \/ sent[c] # <<>>) => Registered(OwnName(c), c)
    /\ \A i \in DOMAIN terminals :
          terminals[i].name = OwnName(terminals[i].socket)
    /\ \A i, j \in DOMAIN terminals :
          terminals[i].name = terminals[j].name => i = j
    /\ (\A c \in Conns : sent[c] # <<>>) => Len(terminals) = NConns

(* Every connection has registered its name and has been answered.          *)
C6_Witness ==
    /\ \A c \in Conns : Received(c, RegisteredReply(OwnName(c)))
    /\ Len(terminals) = NConns

(* C7: the except clause that handles a failed write to a registered        *)
(* session (of send, of execute, of the callback of complete) leaves the    *)
(* Registry without that session under the name it was looked up by.        *)
C7_FailedWriteRemoves ==
    [][\A c \in Conns :
         (pc[c] \in {"snd_del", "exe_del", "cmp_except"} /\ pc'[c] # pc[c]) =>
            ~\E i \in DOMAIN terminals' :
                /\ terminals'[i].socket = target_socket[c]
                /\ terminals'[i].name = IF pc[c] = "cmp_except"
                                        THEN callback_terminal[c]
                                        ELSE message[c].target]_vars

(* C8: a handler that is routing a send, an execute or a complete is not    *)
(* terminated by it: it goes on to its next step or back to receiving.      *)
C8_RoutingNeverEndsSender ==
    [][\A c \in Conns : pc[c] \in Routing => pc'[c] # "done"]_vars

(* C9: a send whose target is not in the Registry when it is looked up      *)
(* writes nothing to any session, leaves the Registry and the Callback      *)
(* Table as they are, and its handler goes back to receiving.               *)
C9_SendToAbsentIsNoOp ==
    [][\A c \in Conns :
         (pc[c] = "snd_in" /\ pc'[c] # pc[c] /\ ~IsRegistered(message[c].target)) =>
            /\ sent' = sent
            /\ terminals' = terminals
            /\ completion_callbacks' = completion_callbacks
            /\ pc'[c] = "recv"]_vars

(* A send to B is about to be looked up while only A is registered.         *)
C9_Witness ==
    \E c \in Conns :
       /\ pc[c] = "snd_in"
       /\ message[c].target = "B"
       /\ IsRegistered("A")
       /\ ~IsRegistered("B")

(* C10: an execute whose target is not in the Registry when it is looked up *)
(* writes nothing to any session, leaves the Registry as it is and creates  *)
(* or overwrites no callback entry, whatever its callback field.            *)
C10_ExecuteToAbsentIsDropped ==
    [][\A c \in Conns :
         (pc[c] = "exe_in" /\ pc'[c] # pc[c] /\ ~IsRegistered(message[c].target)) =>
            /\ sent' = sent
            /\ terminals' = terminals
            /\ completion_callbacks' = completion_callbacks
            /\ pc'[c] = "recv"]_vars

(* An execute for B that names callback terminal A is about to be looked up *)
(* while only A is registered.                                              *)
C10_Witness ==
    \E c \in Conns :
       /\ pc[c] = "exe_in"
       /\ message[c].target = "B"
       /\ message[c].callback = "A"
       /\ IsRegistered("A")
       /\ ~IsRegistered("B")

----------------------------------------------------------------------------
(* C11: a handler that has found the callback entry of a complete message  *)
(* leaves that message only with the entry deleted, whether the callback   *)
(* was delivered, its terminal is not registered or the write failed; a    *)
(* complete message with no entry changes no table and writes nothing.     *)
FoundEntry == {"cmp_get", "cmp_tin", "cmp_tget", "cmp_send", "cmp_except",
               "cmp_del"}

C11_CompleteDeletesEntry ==
    [][\A c \in Conns :
          /\ (pc[c] \in FoundEntry /\ pc'[c] \in {"recv", "done"})
                => CallbackKey(message[c].terminal, message[c].command)
                      \notin DOMAIN completion_callbacks'
          /\ (pc[c] = "cmp_in" /\ pc'[c] = "recv")
                => /\ terminals' = terminals
                   /\ completion_callbacks' = completion_callbacks
                   /\ sent' = sent]_vars

----------------------------------------------------------------------------
(* C12 as stated: the entry an execute message stores is a name under      *)
(* which the connection that sent the execute is registered.               *)
C12_EntryNamesSender ==
    [][\A c \in Conns :
          (pc[c] = "exe_cb" /\ pc'[c] # pc[c])
             => LET key == CallbackKey(message[c].target, message[c].command) IN
                   /\ key \in DOMAIN completion_callbacks'
                   /\ Registered(completion_callbacks'[key], c)]_vars

(* C12: an execute message with a non-empty callback field that is routed  *)
(* to a registered target stores that field as the entry of (target,       *)
(* command), whichever connection sent it; one with an empty or missing    *)
(* callback field leaves the table as it is.                               *)
C12_EntryIsCallbackField ==
    [][\A c \in Conns :
          LET key == CallbackKey(message[c].target, message[c].command) IN
             /\ (pc[c] = "exe_get" /\ pc'[c] # pc[c]
                   /\ message[c].callback # Absent
                   /\ IsRegistered(message[c].target))
                   => pc'[c] = "exe_cb"
             /\ (pc[c] = "exe_cb" /\ pc'[c] # pc[c])
                   => /\ message[c].callback # Absent
                      /\ key \in DOMAIN completion_callbacks'
                      /\ completion_callbacks'[key] = message[c].callback
             /\ (message[c].type = "execute" /\ message[c].callback = Absent
                   /\ pc'[c] # pc[c])
                   => completion_callbacks' = completion_callbacks]_vars

(* A connection that is not registered as B has stored B as the entry of   *)
(* (A, x).                                                                 *)
C12_Witness ==
    \E c \in Conns :
       /\ pc[c] = "exe_send"
       /\ message[c].target = "A"
       /\ message[c].callback = "B"
       /\ ~Registered("B", c)
       /\ CallbackKey("A", "x") \in DOMAIN completion_callbacks
       /\ completion_callbacks[CallbackKey("A", "x")] = "B"

----------------------------------------------------------------------------
(* C13: the interrupt sets running to false and closes the listening       *)
(* socket; from then on no connection is accepted, every step of the       *)
(* accept loop after running is false is its last, the loop eventually     *)
(* stops, and when the process has ended no connection is open.            *)
C13_ShutdownStopsBroker ==
    /\ [](main_pc # "serving" => ~running)
    /\ [](main_pc \in {"closed", "exited"} => server_socket = "closed")
    /\ [][server_socket = "closed"
            => \A c \in Conns : pc[c] = "unborn" => pc'[c] = "unborn"]_vars
    /\ [][(~running /\ listener_pc' # listener_pc)
            => listener_pc' \in {"exited", "killed"}]_vars
    /\ (main_pc = "interrupted") ~> (listener_pc \in {"exited", "killed"})
    /\ [](main_pc = "exited"
            => \A c \in Conns : pc[c] \in {"unborn", "done", "killed"})

(* The process has ended with a registered, connected client whose handler *)
(* was still serving it.                                                   *)
C13_Witness ==
    /\ main_pc = "exited"
    /\ \E c \in Conns :
          /\ pc[c] = "killed"
          /\ peer[c]
          /\ Registered(OwnName(c), c)

----------------------------------------------------------------------------
(* C14: a blocked write stalls no routing: the handler of a connected,     *)
(* responsive client that is inside a message eventually has processed it  *)
(* and reads the connection's next message (or has ended), so that what    *)
(* the connection sends next to a responsive terminal is routed.           *)
C14_NoHandlerStalls ==
    \A c \in Conns :
       (pc[c] \notin {"unborn", "recv", "done"} /\ peer[c] /\ ~stalled[c])
          ~> (pc[c] \in {"recv", "done"})

----------------------------------------------------------------------------
(* C15: the step that ends a handler (undecodable input, or an exception   *)
(* raised while processing a message) ends that handler only: every other  *)
(* handler stays where it is, the Registry, the Callback Table and what    *)
(* was written to the clients are unchanged, and the accept loop and the   *)
(* listening socket are untouched.                                         *)
C15_FailureIsContained ==
    [][\A c \in Conns :
          (pc[c] # "done" /\ pc'[c] = "done")
             => /\ \A d \in Conns \ {c} : pc'[d] = pc[d] /\ peer'[d] = peer[d]
                /\ terminals' = terminals
                /\ completion_callbacks' = completion_callbacks
                /\ sent' = sent
                /\ running' = running /\ running
                /\ server_socket' = server_socket /\ server_socket = "listening"
                /\ listener_pc' = listener_pc /\ listener_pc # "exited"]_vars

(* Connection 1 has ended on undecodable input, before decoding any        *)
(* message, with its client still connected; connection 2 is open,         *)
(* registered as A and has been sent a message.                            *)
C15_Witness ==
    /\ pc[1] = "done"
    /\ peer[1]
    /\ sent[1] = <<>>
    /\ pc[2] = "recv"
    /\ nrecv = 2
    /\ Registered("A", 2)
    /\ Received(2, MessageMsg("hi"))

----------------------------------------------------------------------------
(* C16: a callback entry is removed only by the handler of a complete      *)
(* message with its key, at the delete that ends _handle_completion, and   *)
(* its value is changed only by the handler of an execute message with its *)
(* key; every other step (register, send, list, a disconnect, the removal  *)
(* of a terminal after a failed write) leaves it as it is.                 *)
C16_EntriesNeverExpire ==
    [][\A k \in DOMAIN completion_callbacks :
          /\ k \notin DOMAIN completion_callbacks'
                => \E c \in Conns :
                      /\ pc[c] = "cmp_del" /\ pc'[c] # pc[c]
                      /\ message[c].type = "complete"
                      /\ k = CallbackKey(message[c].terminal, message[c].command)
          /\ (k \in DOMAIN completion_callbacks'
                /\ completion_callbacks'[k] # completion_callbacks[k])
                => \E c \in Conns :
                      /\ pc[c] = "exe_cb" /\ pc'[c] # pc[c]
                      /\ message[c].type = "execute"
                      /\ k = CallbackKey(message[c].target, message[c].command)]_vars

(* The entry of (A, x) is still there after A was removed from the         *)
(* Registry and both clients have gone.                                    *)
C16_Witness ==
    /\ CallbackKey("A", "x") \in DOMAIN completion_callbacks
    /\ completion_callbacks[CallbackKey("A", "x")] = "A"
    /\ last_execute[CallbackKey("A", "x")].callback = "A"
    /\ ~IsRegistered("A")
    /\ \A c \in Conns : pc[c] = "done"

----------------------------------------------------------------------------
(* C17: a list request takes the names of the Registry as they are at that *)
(* moment, each once and in the order of their first registration, and     *)
(* the reply written to the requesting connection carries exactly them;    *)
(* neither step changes the Registry or the Callback Table, and nothing is *)
(* written to any other connection.  A registration keeps the places of    *)
(* the names already there.                                                *)
C17_ListRepliesRegistry ==
    /\ [](\A i, j \in DOMAIN terminals :
             terminals[i].name = terminals[j].name => i = j)
    /\ [][\A c \in Conns :
             /\ (pc[c] = "lst_keys" /\ pc'[c] # pc[c])
                   => /\ pc'[c] = "lst_reply"
                      /\ Len(terminal_list'[c]) = Len(terminals)
                      /\ \A i \in DOMAIN terminals :
                            terminal_list'[c][i] = terminals[i].name
                      /\ terminals' = terminals
                      /\ completion_callbacks' = completion_callbacks
                      /\ sent' = sent
             /\ (pc[c] = "lst_reply" /\ pc'[c] = "recv")
                   => /\ sent' = [sent EXCEPT ![c] =
                                     Append(@, [NoReply EXCEPT
                                                   !.type = "list",
                                                   !.terminals = terminal_list[c]])]
                      /\ terminals' = terminals
                      /\ completion_callbacks' = completion_callbacks
             /\ (pc[c] = "reg_store" /\ pc'[c] # pc[c])
                   => /\ Len(terminals') >= Len(terminals)
                      /\ \A i \in DOMAIN terminals :
                            terminals'[i].name = terminals[i].name]_vars

(* A and B were registered in that order, nothing was removed, and a list  *)
(* reply on connection 2 names exactly A then B.                           *)
C17_Witness ==
    /\ Len(terminals) = 2
    /\ terminals[1].name = "A"
    /\ terminals[2].name = "B"
    /\ Registered("A", 1)
    /\ Registered("B", 2)
    /\ Received(2, [NoReply EXCEPT !.type = "list", !.terminals = <<"A", "B">>])

----------------------------------------------------------------------------
(* C18: a message whose type is none of register, send, execute, complete  *)
(* and list, a missing type included, is ignored: its handler does nothing *)
(* with it and reads the connection's next message, the Registry and the   *)
(* Callback Table are unchanged and nothing is written.                    *)
KnownTypes == {"register", "send", "execute", "complete", "list"}

C18_UnknownTypeIgnored ==
    [][\A c \in Conns :
          /\ (pc[c] = "recv" /\ pc'[c] \notin {"recv", "done"}
                /\ message'[c].type \notin KnownTypes)
                => pc'[c] = "ignored"
          /\ ((pc[c] = "recv" \/ pc[c] = "ignored") /\ pc'[c] # pc[c]
                /\ (IF pc[c] = "recv" THEN message'[c] ELSE message[c]).type
                      \notin KnownTypes)
                => /\ pc'[c] \in {"ignored", "recv", "done"}
                   /\ pc[c] = "ignored" => pc'[c] = "recv"
                   /\ terminals' = terminals
                   /\ completion_callbacks' = completion_callbacks
                   /\ sent' = sent
                   /\ peer' = peer]_vars

(* A registered connection with an outstanding callback entry has sent a   *)
(* message without a type.                                                 *)
C18_Witness ==
    \E c \in Conns :
       /\ pc[c] = "ignored"
       /\ message[c].type = Absent
       /\ peer[c]
       /\ Registered("A", c)
       /\ DOMAIN completion_callbacks # {}

----------------------------------------------------------------------------
(* C19: the store of an execute for the pair (t1, c1) and the delete of a  *)
(* complete for (t1, c1) leave the entry the table holds for every other   *)
(* pair (t2, c2) as it is, present or absent and with the same value, also *)
(* when names or commands contain ':'.                                     *)
C19_PairsNeverInterfere ==
    [][\A c \in Conns : \A t2 \in KeyNames, c2 \in KeyCommands :
          LET key2 == CallbackKey(t2, c2)
              same == /\ (key2 \in DOMAIN completion_callbacks')
                            = (key2 \in DOMAIN completion_callbacks)
                      /\ key2 \in DOMAIN completion_callbacks
                            => completion_callbacks'[key2]
                                  = completion_callbacks[key2]
          IN /\ (pc[c] = "exe_cb" /\ pc'[c] # pc[c]
                   /\ <<message[c].target, message[c].command>> # <<t2, c2>>)
                   => same
             /\ (pc[c] = "cmp_del" /\ pc'[c] # pc[c]
                   /\ <<message[c].terminal, message[c].command>> # <<t2, c2>>)
                   => same]_vars

----------------------------------------------------------------------------
(* C20: the removal that follows a failed write removes nothing but the    *)
(* session the write was made to: an entry that another connection has     *)
(* registered since the lookup, under the same name, is still in the       *)
(* Registry after the removal.                                             *)
C20_RemovalSparesNewSession ==
    [][\A c \in Conns :
          (pc[c] \in {"snd_del", "exe_del"} /\ pc'[c] # pc[c])
             => \A i \in DOMAIN terminals :
                   terminals[i].socket # target_socket[c]
                      => \E j \in DOMAIN terminals' : terminals'[j] = terminals[i]]_vars
====
